---- MODULE Spec2Model ----
(***************************************************************************)
(* Model of the SaveTweets example embedded in                             *)
(* "2_basics/Output Operations on DStreams" (the Scala listing, lines      *)
(* 57-111 of the notebook file).                                           *)
(*                                                                         *)
(* The driver registers one foreachRDD callback on the DStream             *)
(* statuses = tweets.map(status => status.getText()), starts the streaming *)
(* context with one-second batches, and the callback saves every non-empty *)
(* batch to a directory "Tweets_<time in ms>", keeps a running count and   *)
(* calls System.exit(0) when the count passes the stop count.              *)
(*                                                                         *)
(* An RDD is a sequence of partitions, a partition is a bag of elements.   *)
(* Strings the program builds are sequences of one-character strings, so   *)
(* that Long.toString and string concatenation are computed, not assumed.  *)
(***************************************************************************)
EXTENDS Integers, Sequences, FiniteSets, Bags, TLC

\* ---- bounds of the model ----
MaxBatches == 3      \* batches the stream generates in one run
MaxPartitions == 2   \* partitions of one generated batch
MinZeroSec == 8      \* earliest start of the context, in seconds
ZeroSpan == 1        \* number of further start instants considered

\* ---- program constants ----
BatchMillis == 1000  \* Seconds(1)
StopCount == 1000    \* if (totalTweets > 1000)

\* A burst of tweets arriving in one partition; five bursts make StopCount.
BurstUnit == StopCount \div 5

\* ---- strings ----
Digits == <<"0", "1", "2", "3", "4", "5", "6", "7", "8", "9">>

TweetsPrefix == <<"T", "w", "e", "e", "t", "s", "_">>

TweetCountLabel == <<"T", "w", "e", "e", "t", " ", "c", "o", "u", "n", "t", ":", " ">>

\* Long.toString: decimal digits, most significant first, "-" for negatives
RECURSIVE LongToString(_)
LongToString(n) ==
    IF n < 0 THEN <<"-">> \o LongToString(-n)
    ELSE IF n < 10 THEN <<Digits[n + 1]>>
    ELSE LongToString(n \div 10) \o <<Digits[(n % 10) + 1]>>

\* ---- the stream's data ----
\* status.getText(): a status is a record of its user and its text
getText(status) == status.text

\* k bursts of one status (retweets of the same text by the same user)
Burst(user, text, k) == [s \in {[user |-> user, text |-> text]} |-> k * BurstUnit]

\* what one partition of one batch of the receiver can hold: nothing, one
\* burst, or three bursts of which two carry the same text
PartitionMenu == { EmptyBag,
                   Burst("u1", "a", 1),
                   Burst("u1", "a", 1) (+) Burst("u2", "a", 1) (+) Burst("u1", "b", 1) }

\* the RDDs TwitterUtils.createStream can generate for one batch interval
TweetRDDs == UNION { [1..n -> PartitionMenu] : n \in 0..MaxPartitions }

\* the instants at which ssc.start() can happen, in milliseconds
ZeroTimes == { s * BatchMillis : s \in MinZeroSec..(MinZeroSec + ZeroSpan) }

\* ---- RDD operations ----
RECURSIVE SumBags(_)
SumBags(parts) ==
    IF parts = << >> THEN EmptyBag
    ELSE Head(parts) (+) SumBags(Tail(parts))

\* rdd.count(): number of elements over all partitions
count(rdd) == BagCardinality(SumBags(rdd))

\* val statuses = tweets.map(status => status.getText()): per partition,
\* element by element
statuses(tweets) == [i \in DOMAIN tweets |-> BagOfAll(getText, tweets[i])]

\* rdd.repartition(1).cache(): all elements in one partition
repartition1(rdd) == << SumBags(rdd) >>

\* ---- the callback's pieces ----
\* variant: tests the number of partitions instead of the number of records
NotEmptyBatch_Partitions(rdd) == Len(rdd) > 0

\* if (rdd.count() > 0)
NotEmptyBatch(rdd) == count(rdd) > 0

\* variant: names the directory by seconds instead of milliseconds
OutputPath_Seconds(time) == TweetsPrefix \o LongToString(time \div BatchMillis)

\* "Tweets_" + time.milliseconds.toString
OutputPath(time) == TweetsPrefix \o LongToString(time)

\* variant: assigns the batch's count instead of adding it
AddCount_Assign(total, rdd) == count(rdd)

\* totalTweets += repartitionedRDD.count()
AddCount(total, rdd) == total + count(rdd)

\* "Tweet count: " + totalTweets
CountLine(total) == TweetCountLabel \o LongToString(total)

\* if (totalTweets > 1000)
ShouldStop(total) == total > StopCount

\* saveAsTextFile(path): one part file per partition under directory path
saveAsTextFile(fs, path, rdd) ==
    [p \in (DOMAIN fs) \cup {path} |-> IF p = path THEN rdd ELSE fs[p]]

VARIABLES
    started,      \* ssc.start() has been called
    exited,       \* System.exit(0) has been called
    clock,        \* time of the latest generated batch, in milliseconds
    generated,    \* number of batches generated so far
    pending,      \* generated batches whose job has not run yet: [time, tweets]
    totalTweets,  \* var totalTweets: Long
    fs,           \* directories written: path -> sequence of part files
    stdout,       \* lines printed by println
    handled       \* batches the callback was invoked with: [time, rdd]

vars == <<started, exited, clock, generated, pending, totalTweets, fs, stdout, handled>>

Init ==
    /\ started = FALSE
    /\ exited = FALSE
    /\ clock = 0
    /\ generated = 0
    /\ pending = << >>
    /\ totalTweets = 0
    /\ fs = << >>
    /\ stdout = << >>
    /\ handled = << >>

\* ssc.checkpoint(...); ssc.start(): batches are generated from now on
Start ==
    /\ ~started
    /\ \E z \in ZeroTimes : clock' = z
    /\ started' = TRUE
    /\ UNCHANGED <<exited, generated, pending, totalTweets, fs, stdout, handled>>

\* the receiver's data of one more batch interval becomes a batch of tweets
GenerateBatch ==
    /\ started
    /\ ~exited
    /\ generated < MaxBatches
    /\ \E tweets \in TweetRDDs :
          /\ clock' = clock + BatchMillis
          /\ pending' = Append(pending, [time |-> clock', tweets |-> tweets])
    /\ generated' = generated + 1
    /\ UNCHANGED <<started, exited, totalTweets, fs, stdout, handled>>

\* the job of the oldest pending batch runs the foreachRDD callback on
\* statuses' RDD of that batch
ForeachRDD ==
    /\ started
    /\ ~exited
    /\ pending # << >>
    /\ LET time == Head(pending).time
           rdd == statuses(Head(pending).tweets)
           repartitionedRDD == repartition1(rdd)
           newTotal == AddCount(totalTweets, repartitionedRDD)
       IN  /\ handled' = Append(handled, [time |-> time, rdd |-> rdd])
           /\ IF NotEmptyBatch(rdd)
              THEN /\ fs' = saveAsTextFile(fs, OutputPath(time), repartitionedRDD)
                   /\ totalTweets' = newTotal
                   /\ stdout' = Append(stdout, CountLine(newTotal))
                   /\ exited' = ShouldStop(newTotal)
              ELSE UNCHANGED <<fs, totalTweets, stdout, exited>>
    /\ pending' = Tail(pending)
    /\ UNCHANGED <<started, clock, generated>>

Next == Start \/ GenerateBatch \/ ForeachRDD

Spec == Init /\ [][Next]_vars

\* ---- definitions used to state the properties ----
RECURSIVE CountAll(_)
\* sum of the sizes of a sequence of handled batches
CountAll(batches) ==
    IF batches = << >> THEN 0
    ELSE count(Head(batches).rdd) + CountAll(Tail(batches))

NonEmptyHandled == { i \in DOMAIN handled : count(handled[i].rdd) > 0 }

DigitValue(c) == CHOOSE d \in 0..9 : Digits[d + 1] = c

RECURSIVE DecimalValue(_)
DecimalValue(ds) ==
    IF ds = << >> THEN 0
    ELSE 10 * DecimalValue(SubSeq(ds, 1, Len(ds) - 1)) + DigitValue(ds[Len(ds)])

\* ds is the decimal numeral of t
IsDecimalOf(ds, t) ==
    /\ Len(ds) >= 1
    /\ \A k \in DOMAIN ds : \E d \in 0..9 : Digits[d + 1] = ds[k]
    /\ (Len(ds) > 1 => ds[1] # "0")
    /\ DecimalValue(ds) = t

\* p reads "Tweets_" followed by t in decimal
IsTweetsDirOf(p, t) ==
    /\ Len(p) > Len(TweetsPrefix)
    /\ SubSeq(p, 1, Len(TweetsPrefix)) = TweetsPrefix
    /\ IsDecimalOf(SubSeq(p, Len(TweetsPrefix) + 1, Len(p)), t)

LastHandled == handled[Len(handled)]

\* ---- C5 ----
\* C5: the example stops once it has collected 1000 tweets: whenever the
\* batches handled by the callback hold 1000 tweets or more in total, the
\* process has exited.
C5_StopsOnceCollected == CountAll(handled) >= StopCount => exited

\* ---- C6 ----
\* C6: totalTweets starts at 0, after any sequence of handled batches it
\* equals the sum of the sizes of the batches handled so far, and it never
\* decreases.
C6_TotalIsSumOfHandled ==
    /\ totalTweets = 0
    /\ [](totalTweets = CountAll(handled))
    /\ [][totalTweets' >= totalTweets]_vars

\* two non-empty batches and an empty one have been counted
C6_Witness ==
    /\ Cardinality(NonEmptyHandled) >= 2
    /\ Cardinality(NonEmptyHandled) < Len(handled)
    /\ totalTweets > 0

\* ---- C7 ----
\* C7: when the callback is invoked with a batch of zero records it writes
\* no directory, leaves totalTweets unchanged, prints nothing and does not
\* exit.
C7_EmptyBatchIgnored ==
    [][ (Len(handled') = Len(handled) + 1 /\ count(handled'[Len(handled')].rdd) = 0)
          => UNCHANGED <<fs, totalTweets, stdout, exited>> ]_vars

\* the callback has just handled an empty batch that does have partitions,
\* after a batch that was saved
C7_Witness ==
    /\ Len(handled) >= 2
    /\ count(LastHandled.rdd) = 0
    /\ Len(LastHandled.rdd) > 0
    /\ DOMAIN fs # {}
    /\ ~exited

\* ---- C8 ----
\* C8: every non-empty handled batch is in exactly one directory named
\* "Tweets_" followed by its time in milliseconds, as a single partition
\* holding all its records; every directory written belongs to such a
\* batch; and there are as many directories as non-empty handled batches.
C8_OneDirPerNonEmptyBatch ==
    /\ \A i \in NonEmptyHandled :
          /\ Cardinality({p \in DOMAIN fs : IsTweetsDirOf(p, handled[i].time)}) = 1
          /\ \A p \in DOMAIN fs :
                IsTweetsDirOf(p, handled[i].time) =>
                   /\ Len(fs[p]) = 1
                   /\ fs[p][1] = SumBags(handled[i].rdd)
    /\ \A p \in DOMAIN fs : \E i \in NonEmptyHandled : IsTweetsDirOf(p, handled[i].time)
    /\ Cardinality(DOMAIN fs) = Cardinality(NonEmptyHandled)

\* two batches were saved, one of them from two non-empty partitions, and
\* an empty batch was skipped
C8_Witness ==
    /\ Cardinality(DOMAIN fs) >= 2
    /\ Cardinality(NonEmptyHandled) < Len(handled)
    /\ \E i \in NonEmptyHandled :
          /\ Len(handled[i].rdd) = 2
          /\ \A k \in 1..2 : BagCardinality(handled[i].rdd[k]) > 0

====
